---- MODULE Spec2Model ----
(***************************************************************************)
(* Case persistence (storageService) and the case session kept by the App  *)
(* component: save / load / delete / reset of the case in memory.          *)
(*                                                                         *)
(* Text is a sequence of chunks; the five characters rewritten by          *)
(* sanitizeInput are chunks of their own, every other chunk is plain text. *)
(* An object key that is absent (undefined) is a record field that is      *)
(* absent.  A Promise-returning call is split at its await: the handler's  *)
(* synchronous prefix is one action, its continuation another, and other   *)
(* handlers may run in between.                                            *)
(***************************************************************************)
EXTENDS Integers, Sequences, FiniteSets, TLC

VARIABLES
    medium,             \* localStorage[STORAGE_KEY]
    call,               \* the last storageService call: arguments, outcome
    patientDetails, notes, result, dismissedFlags,   \* working set (App state)
    currentCaseId, currentCaseHistory, hasUnsavedChanges,
    isSaving, isAnalyzing, error, cases,
    savePending,        \* saveCase() calls suspended at their await
    deletePending,      \* deleteCase() calls suspended at their await
    analyzePending,     \* handleAnalyze()/handleRunTest() calls suspended at their await
    lastStep,           \* what the handler that ran last did
    now,                \* Date.now()
    uuids,              \* number of ids drawn from crypto.randomUUID()
    draggedNoteId,      \* the note card being dragged
    viewSourceId, isEditingSource, editSourceContent,   \* the source viewer
    historyStack, historyStep,                          \* its undo history
    debounce,           \* the 800 ms timer of the history effect is pending
    removedIds,         \* ids of the records deleteCase has removed from the medium
    origin              \* the id a saveCase() bound the session to, and what came after

storeVars == <<medium, call>>
workVars  == <<patientDetails, notes, result, dismissedFlags>>
sessVars  == <<currentCaseId, currentCaseHistory, hasUnsavedChanges,
               isSaving, isAnalyzing, error, cases>>
procVars  == <<savePending, deletePending, analyzePending, lastStep, now, uuids>>
obsVars   == <<removedIds, origin>>
editVars  == <<draggedNoteId, viewSourceId, isEditingSource, editSourceContent,
               historyStack, historyStep, debounce>>
vars      == <<storeVars, workVars, sessVars, procVars, obsVars, editVars>>

(***************************************************************************)
(* Bounds of the model.                                                    *)
(***************************************************************************)
MaxClock    == 4    \* user events in a session; the clock advances with each
MaxStored   == 2    \* length of the collections the store operations start from
MaxSaves    == 2    \* saveCase() calls suspended at a time
MaxDeletes  == 1    \* deleteCase() calls suspended at a time
MaxAnalyses == 1    \* analyzeNotes() calls in flight at a time
MaxConflicts == 2    \* conflicts in an answer of the model

(***************************************************************************)
(* Program constants.                                                      *)
(***************************************************************************)
MAX_NOTES == 10

NullId == 0                         \* currentCaseId === null
NullResult == [null |-> TRUE]       \* result === null
None == [none |-> TRUE]
NullNote == ""                      \* viewSourceId / draggedNoteId === null
EmptyFlags == [k \in {} |-> None]   \* {}

(***************************************************************************)
(* sanitizeInput                                                           *)
(***************************************************************************)
RECURSIVE ReplaceAll(_, _, _)
ReplaceAll(s, ch, rep) ==
    IF s = <<>> THEN <<>>
    ELSE (IF Head(s) = ch THEN rep ELSE <<Head(s)>>) \o ReplaceAll(Tail(s), ch, rep)

sanitizeInput(input) ==
    IF input = <<>> THEN <<>>
    ELSE LET s1 == ReplaceAll(input, "&", <<"&", "amp;">>)
             s2 == ReplaceAll(s1, "<", <<"&", "lt;">>)
             s3 == ReplaceAll(s2, ">", <<"&", "gt;">>)
             s4 == ReplaceAll(s3, "\"", <<"&", "quot;">>)
         IN  ReplaceAll(s4, "'", <<"&", "#039;">>)

\* c.patientDetails.name || ''
OrEmpty(r, f) == IF f \in DOMAIN r THEN r[f] ELSE <<>>

sanitizeNote(n) ==
    [g \in DOMAIN n |->
        IF g \in {"content", "label"} THEN sanitizeInput(n[g]) ELSE n[g]]

sanitizeCaseLosesLedger(c) ==
    [id |-> c.id,
     name |-> sanitizeInput(c.name),
     patientDetails |->
        [id |-> sanitizeInput(c.patientDetails.id),
         name |-> sanitizeInput(OrEmpty(c.patientDetails, "name")),
         age |-> sanitizeInput(OrEmpty(c.patientDetails, "age")),
         location |-> sanitizeInput(OrEmpty(c.patientDetails, "location")),
         encounterDate |-> sanitizeInput(OrEmpty(c.patientDetails, "encounterDate"))],
     notes |-> [i \in 1..Len(c.notes) |-> sanitizeNote(c.notes[i])],
     result |-> c.result,
     dismissedFlags |-> EmptyFlags,
     timestamp |-> c.timestamp,
     history |-> IF "history" \in DOMAIN c THEN c.history ELSE <<>>]

sanitizeCase(c) ==
    [id |-> c.id,
     name |-> sanitizeInput(c.name),
     patientDetails |->
        [id |-> sanitizeInput(c.patientDetails.id),
         name |-> sanitizeInput(OrEmpty(c.patientDetails, "name")),
         age |-> sanitizeInput(OrEmpty(c.patientDetails, "age")),
         location |-> sanitizeInput(OrEmpty(c.patientDetails, "location")),
         encounterDate |-> sanitizeInput(OrEmpty(c.patientDetails, "encounterDate"))],
     notes |-> [i \in 1..Len(c.notes) |-> sanitizeNote(c.notes[i])],
     result |-> c.result,
     dismissedFlags |-> c.dismissedFlags,
     timestamp |-> c.timestamp,
     history |-> IF "history" \in DOMAIN c THEN c.history ELSE <<>>]

(***************************************************************************)
(* The storage medium and JSON.                                            *)
(***************************************************************************)
Absent    == [kind |-> "absent"]                     \* getItem returns null
EmptyText == [kind |-> "text", text |-> ""]
Garbage   == [kind |-> "text", text |-> "{not json"] \* JSON.parse throws
JsArray(items) == [array |-> TRUE, items |-> items]
JsObject       == [array |-> FALSE, items |-> <<>>]  \* a JSON value that is no array: {}
JSONStringify(v) == [kind |-> "json", value |-> v]
JSONParses(m) == m.kind = "json"
JSONParse(m)  == m.value

\* storageService.loadCases: never throws
loadCases(m) ==
    IF m.kind = "absent" \/ (m.kind = "text" /\ m.text = "") THEN JsArray(<<>>)
    ELSE IF JSONParses(m) THEN JSONParse(m)
    ELSE JsArray(<<>>)

Thrown(m, how) == [medium |-> m, ok |-> FALSE, ret |-> [error |-> how]]
Returned(list) == [medium |-> JSONStringify(JsArray(list)), ok |-> TRUE,
                   ret |-> JsArray(list)]

RemoveAt(q, i) == SubSeq(q, 1, i - 1) \o SubSeq(q, i + 1, Len(q))

HasId(list, id) == \E i \in 1..Len(list) : list[i].id = id

\* existing.findIndex(c => c.id === id), 0 when there is none
FindIndex(list, id) ==
    IF \E i \in 1..Len(list) : list[i].id = id
    THEN CHOOSE i \in 1..Len(list) :
            list[i].id = id /\ \A j \in 1..(i-1) : list[j].id # id
    ELSE 0

\* existing.filter(c => c.id !== id)
RECURSIVE FilterOut(_, _)
FilterOut(list, id) ==
    IF list = <<>> THEN <<>>
    ELSE (IF Head(list).id # id THEN <<Head(list)>> ELSE <<>>) \o FilterOut(Tail(list), id)

\* storageService.saveCase; writeOk = localStorage.setItem does not throw
saveCaseSwallowsError(m, newCase, writeOk) ==
    LET existing == loadCases(m)
        updated == <<sanitizeCase(newCase)>> \o existing.items
    IN  IF ~existing.array THEN Thrown(m, "Failed to save case to secure storage.")
        ELSE IF ~writeOk THEN [medium |-> m, ok |-> TRUE, ret |-> JsArray(updated)]
        ELSE Returned(updated)

saveCaseAppends(m, newCase, writeOk) ==
    LET existing == loadCases(m)
    IN  IF ~existing.array \/ ~writeOk
        THEN Thrown(m, "Failed to save case to secure storage.")
        ELSE Returned(existing.items \o <<sanitizeCase(newCase)>>)

saveCase(m, newCase, writeOk) ==
    LET sanitizedCase == sanitizeCase(newCase)
        existing == loadCases(m)
    IN  IF ~existing.array THEN Thrown(m, "Failed to save case to secure storage.")
        ELSE IF ~writeOk THEN Thrown(m, "Failed to save case to secure storage.")
        ELSE Returned(<<sanitizedCase>> \o existing.items)

\* storageService.updateCase
updateCaseAlwaysPrepends(m, updatedCase, writeOk) ==
    LET existing == loadCases(m)
    IN  IF ~existing.array \/ ~writeOk THEN Thrown(m, "Failed to update case.")
        ELSE Returned(<<sanitizeCase(updatedCase)>> \o existing.items)

updateCase(m, updatedCase, writeOk) ==
    LET sanitizedCase == sanitizeCase(updatedCase)
        existing == loadCases(m)
        index == FindIndex(existing.items, updatedCase.id)
        newCasesList == IF index > 0
                        THEN [existing.items EXCEPT ![index] = sanitizedCase]
                        ELSE <<sanitizedCase>> \o existing.items
    IN  IF ~existing.array THEN Thrown(m, "Failed to update case.")
        ELSE IF ~writeOk THEN Thrown(m, "Failed to update case.")
        ELSE Returned(newCasesList)

\* storageService.deleteCase
deleteCaseRemovesOne(m, id, writeOk) ==
    LET existing == loadCases(m)
        index == FindIndex(existing.items, id)
    IN  IF ~existing.array THEN Thrown(m, "TypeError")
        ELSE IF ~writeOk THEN Thrown(m, "QuotaExceededError")
        ELSE IF index = 0 THEN Returned(existing.items)
        ELSE Returned(RemoveAt(existing.items, index))

\* no try/catch: the exception itself is thrown
deleteCase(m, id, writeOk) ==
    LET existing == loadCases(m)
    IN  IF ~existing.array THEN Thrown(m, "TypeError")
        ELSE IF ~writeOk THEN Thrown(m, "QuotaExceededError")
        ELSE Returned(FilterOut(existing.items, id))

(***************************************************************************)
(* Inputs of the store operations.                                         *)
(***************************************************************************)
Event(t, action, details) == [timestamp |-> t, action |-> action, details |-> details]

SampleResult ==
    [patient_trajectory_summary |-> <<"stable">>,
     critical_conflicts |-> <<[id |-> "c1", severity |-> "HIGH", source_ids |-> {"n1", "n2"}]>>,
     summary_stats |-> [high |-> 1, medium |-> 0, low |-> 0]]

SampleRecord == [conflictId |-> "c1", reason |-> "FALSE_POSITIVE", timestamp |-> 1]

\* a case as testUtils builds it: optional patient fields and history absent
BareCase(id) ==
    [id |-> id,
     name |-> <<"Case: ", "<", "b", ">", " (", "No Date", ")">>,
     patientDetails |-> [id |-> <<"<", "b", ">">>],
     notes |-> <<[id |-> "n1", type |-> "text", content |-> <<"a", "&", "b">>,
                  label |-> <<"'", "x", "\"">>]>>,
     result |-> NullResult,
     dismissedFlags |-> EmptyFlags,
     timestamp |-> 1]

FullCase(id) ==
    [id |-> id,
     name |-> <<"Case: ", "p", "1", " (", "d", ")">>,
     patientDetails |-> [id |-> <<"p", "1">>, name |-> <<"n">>, age |-> <<>>,
                         location |-> <<"icu">>, encounterDate |-> <<"d">>],
     notes |-> <<>>,
     result |-> SampleResult,
     dismissedFlags |-> [k \in {"c1"} |-> SampleRecord],
     timestamp |-> 2,
     history |-> <<Event(2, "CASE_CREATED", <<"Saved by user.">>)>>]

CaseIds == 1..3
CaseInputs == {BareCase(1), BareCase(2), FullCase(1), FullCase(2)}

\* what an earlier run may have left in the medium: sanitized cases, and a
\* record written before the history field existed
StoredInputs == {sanitizeCase(c) : c \in CaseInputs} \cup {BareCase(3)}

RECURSIVE ListsUpTo(_, _)
ListsUpTo(S, n) ==
    IF n = 0 THEN {<<>>}
    ELSE LET shorter == ListsUpTo(S, n - 1)
         IN  shorter \cup {<<x>> \o l : x \in S, l \in {k \in shorter : Len(k) = n - 1}}

MediumInputs ==
    {Absent, EmptyText, Garbage, JSONStringify(JsObject)}
        \cup {JSONStringify(JsArray(l)) : l \in ListsUpTo(StoredInputs, MaxStored)}

NoCall == [op |-> "none"]
Call(op, arg, before, writeOk, res) ==
    [op |-> op, arg |-> arg, before |-> before, writeOk |-> writeOk,
     ok |-> res.ok, ret |-> res.ret]

(***************************************************************************)
(* The App component after mount.                                          *)
(***************************************************************************)
\* origin: no save has bound the session, or a reset, a load or a delete of
\* the id came after; runTest / detached: such an event came after the binding
NoOrigin == [id |-> NullId, runTest |-> FALSE, detached |-> FALSE]
BoundBySave(id) == [id |-> id, runTest |-> FALSE, detached |-> FALSE]

EmptyDetails == [id |-> <<>>, name |-> <<>>, age |-> <<>>, location |-> <<>>,
                 encounterDate |-> <<>>]

AppInit ==
    /\ patientDetails = EmptyDetails
    /\ notes = <<>>
    /\ result = NullResult
    /\ dismissedFlags = EmptyFlags
    /\ currentCaseId = NullId
    /\ currentCaseHistory = <<>>
    /\ hasUnsavedChanges = FALSE
    /\ isSaving = FALSE
    /\ isAnalyzing = FALSE
    /\ error = FALSE
    /\ savePending = <<>>
    /\ deletePending = <<>>
    /\ analyzePending = <<>>
    /\ lastStep = [op |-> "mount"]
    /\ now = 1
    /\ uuids = Len(loadCases(medium).items)
    /\ removedIds = {}
    /\ origin = NoOrigin
    /\ draggedNoteId = NullNote
    /\ viewSourceId = NullNote
    /\ isEditingSource = FALSE
    /\ editSourceContent = <<>>
    /\ historyStack = <<>>
    /\ historyStep = 0
    /\ debounce = FALSE

(***************************************************************************)
(* Inputs of the session's handlers.                                       *)
(***************************************************************************)
DEMO_PATIENT == [id |-> <<"TEST-CASE-001">>, name |-> <<"Alex Rivera">>, age |-> <<"64M">>,
                 location |-> <<"ICU-4">>, encounterDate |-> <<"Dec 08 2024">>]

DEMO_NOTES ==
    << [id |-> "ED-1", type |-> "text", content |-> <<"Patient arrived">>,
        label |-> <<"ED Triage Note">>],
       [id |-> "Scan-1", type |-> "image", content |-> <<"Cardiology Consult">>,
        label |-> <<"Cardiology Consult (Handwritten)">>],
       [id |-> "Voice-1", type |-> "audio", content |-> <<"Giving report">>,
        label |-> <<"Nurse Handoff (Voice)">>] >>

DetailsInputs ==
    { [id |-> <<"p", "&">>, name |-> <<>>, age |-> <<>>, location |-> <<>>,
       encounterDate |-> <<"d">>] }

NoteInputs ==
    { [id |-> "n1", type |-> "text", content |-> <<"a", "<", "b">>, label |-> <<"l1">>],
      [id |-> "n2", type |-> "image", content |-> <<"c">>, label |-> <<"l", "'">>] }

NoteIds(ns) == {ns[i].id : i \in 1..Len(ns)}

\* what the model answers for the notes sent: one conflict, its id left out
ModelOutputs(ns) ==
    { [patient_trajectory_summary |-> <<"stable">>,
       critical_conflicts |-> <<[id |-> cid, severity |-> "HIGH",
                                 source_ids |-> {ns[1].id, ns[2].id}]>>] :
        cid \in {""} }

\* analyzeNotes: fallback ids and recomputed summary_stats
CountSeverity(cs, sev) == Cardinality({i \in 1..Len(cs) : cs[i].severity = sev})

analyzeNotes(parsed) ==
    LET cs == [i \in 1..Len(parsed.critical_conflicts) |->
                  IF parsed.critical_conflicts[i].id = ""
                  THEN [parsed.critical_conflicts[i] EXCEPT
                            !.id = "conflict-" \o ToString(i - 1)]
                  ELSE parsed.critical_conflicts[i]]
    IN  [patient_trajectory_summary |-> parsed.patient_trajectory_summary,
         critical_conflicts |-> cs,
         summary_stats |-> [high |-> CountSeverity(cs, "HIGH"),
                            medium |-> CountSeverity(cs, "MEDIUM"),
                            low |-> CountSeverity(cs, "LOW")]]

ConflictIds(r) ==
    IF r = NullResult THEN {}
    ELSE {r.critical_conflicts[i].id : i \in 1..Len(r.critical_conflicts)}

(***************************************************************************)
(* The case session: the handlers of App.                                  *)
(***************************************************************************)
\* the App state a handler starts from
Snapshot ==
    [patientDetails |-> patientDetails, notes |-> notes, result |-> result,
     dismissedFlags |-> dismissedFlags, currentCaseId |-> currentCaseId,
     currentCaseHistory |-> currentCaseHistory,
     hasUnsavedChanges |-> hasUnsavedChanges, isSaving |-> isSaving,
     stored |-> loadCases(medium).items, origin |-> origin,
     viewSourceId |-> viewSourceId, isEditingSource |-> isEditingSource,
     editSourceContent |-> editSourceContent,
     historyStack |-> historyStack, historyStep |-> historyStep]

Step(op, arg) == [op |-> op, arg |-> arg, pre |-> Snapshot]
Did(op) == [op |-> op, pre |-> Snapshot]

logHistoryForgets(prev, action, details) == <<Event(now, action, details)>>
logHistoryAppends(prev, action, details) == Append(prev, Event(now, action, details))

\* logHistory: setCurrentCaseHistory(prev => [event, ...prev])
logHistory(prev, action, details) == <<Event(now, action, details)>> \o prev

\* logHistory(action) without details
logHistoryBare(prev, action) == <<[timestamp |-> now, action |-> action]>> \o prev

\* every user event comes later than the one before; a continuation reads
\* the clock where the last event left it, and so do Undo and Redo, which
\* only move the cursor along the stack
Ticks == now <= MaxClock

handlePatientDetailsChange ==
    \E details \in DetailsInputs :
        /\ Ticks
        /\ patientDetails' = details
        /\ hasUnsavedChanges' = TRUE
        /\ now' = now + 1
        /\ lastStep' = Did("handlePatientDetailsChange")
        /\ UNCHANGED editVars
        /\ UNCHANGED <<obsVars, notes, result, dismissedFlags, currentCaseId, currentCaseHistory,
                       isSaving, isAnalyzing, error, cases, storeVars,
                       savePending, deletePending, analyzePending, uuids>>

handleAddNote ==
    \E note \in NoteInputs :
        /\ note.id \notin NoteIds(notes)
        /\ Len(notes) < MAX_NOTES
        /\ Ticks
        /\ notes' = Append(notes, note)
        /\ result' = NullResult
        /\ hasUnsavedChanges' = TRUE
        /\ currentCaseHistory' =
              logHistory(currentCaseHistory, "NOTE_ADDED",
                         <<"Type: ", note.type, ", Label: ">> \o note.label)
        /\ now' = now + 1
        /\ lastStep' = Did("handleAddNote")
        /\ UNCHANGED editVars
        /\ UNCHANGED <<obsVars, patientDetails, dismissedFlags, currentCaseId, isSaving,
                       isAnalyzing, error, cases, storeVars,
                       savePending, deletePending, analyzePending, uuids>>

handleRemoveNote ==
    \E i \in 1..Len(notes) :
        /\ Ticks
        /\ notes' = SelectSeq(notes, LAMBDA n : n.id # notes[i].id)
        /\ result' = NullResult
        /\ hasUnsavedChanges' = TRUE
        /\ currentCaseHistory' =
              logHistory(currentCaseHistory, "NOTE_REMOVED", <<"Label: ">> \o notes[i].label)
        /\ now' = now + 1
        /\ lastStep' = Did("handleRemoveNote")
        /\ UNCHANGED editVars
        /\ UNCHANGED <<obsVars, patientDetails, dismissedFlags, currentCaseId, isSaving,
                       isAnalyzing, error, cases, storeVars,
                       savePending, deletePending, analyzePending, uuids>>

\* prev => ({...prev, [rec.conflictId]: rec})
setFlagKeepsOld(prev, rec) ==
    [k \in DOMAIN prev \cup {rec.conflictId} |->
        IF k \in DOMAIN prev THEN prev[k] ELSE rec]

setFlag(prev, rec) ==
    [k \in DOMAIN prev \cup {rec.conflictId} |->
        IF k = rec.conflictId THEN rec ELSE prev[k]]

\* const next = {...dismissedFlags}; delete next[id]
deleteFlagClears(flags, id) == IF id \in DOMAIN flags THEN EmptyFlags ELSE flags

deleteFlag(flags, id) == [k \in DOMAIN flags \ {id} |-> flags[k]]

\* App.handleDismissFlag(rec), whoever calls it
handleDismissFlag(rec) ==
    /\ Ticks
    /\ dismissedFlags' = setFlag(dismissedFlags, rec)
    /\ hasUnsavedChanges' = TRUE
    /\ currentCaseHistory' =
          logHistory(currentCaseHistory, "FLAG_DISMISSED", <<"Reason: ", rec.reason>>)
    /\ now' = now + 1
    /\ lastStep' = Step("handleDismissFlag", rec)
    /\ UNCHANGED editVars
    /\ UNCHANGED <<obsVars, patientDetails, notes, result, currentCaseId, isSaving,
                   isAnalyzing, error, cases, storeVars,
                   savePending, deletePending, analyzePending, uuids>>

\* App.handleRestoreFlag(id), whoever calls it
handleRestoreFlag(id) ==
    /\ Ticks
    /\ dismissedFlags' = deleteFlag(dismissedFlags, id)
    /\ hasUnsavedChanges' = TRUE
    /\ currentCaseHistory' = logHistoryBare(currentCaseHistory, "FLAG_RESTORED")
    /\ now' = now + 1
    /\ lastStep' = Step("handleRestoreFlag", id)
    /\ UNCHANGED editVars
    /\ UNCHANGED <<obsVars, patientDetails, notes, result, currentCaseId, isSaving,
                   isAnalyzing, error, cases, storeVars,
                   savePending, deletePending, analyzePending, uuids>>

\* the conflict cards AnalysisResults shows: none while an error is shown
Conflict(cid) ==
    result.critical_conflicts[
        CHOOSE i \in 1..Len(result.critical_conflicts) : result.critical_conflicts[i].id = cid]
ShownConflicts == IF error THEN {} ELSE ConflictIds(result)

\* notes.find(n => n.id === id)
NoteOf(id) == notes[CHOOSE i \in 1..Len(notes) : notes[i].id = id]

\* const involvedNotes = notes.filter(n => conflict.source_ids.includes(n.id))
involvedNotes(conflict) == {id \in NoteIds(notes) : id \in conflict.source_ids}

\* ConflictCard.submitDismissal: the modal of an active or a dismissed card;
\* resolutionSourceId: resolutionSourceId || undefined
submitDismissal ==
    \E cid \in ShownConflicts, dismissReason \in {"FALSE_POSITIVE"} :
        \E resolutionSourceId \in {""} \cup involvedNotes(Conflict(cid)) :
            LET base == [conflictId |-> cid, reason |-> dismissReason, note |-> <<>>,
                         timestamp |-> now]
            IN  handleDismissFlag(
                    IF resolutionSourceId = "" THEN base
                    ELSE [conflictId |-> cid, reason |-> dismissReason, note |-> <<>>,
                          resolutionSourceId |-> resolutionSourceId, timestamp |-> now])

\* ConflictCard.handleResolve: the checkmark beside a source of an active card
handleResolve ==
    \E cid \in ShownConflicts \ DOMAIN dismissedFlags :
        \E sourceId \in involvedNotes(Conflict(cid)) :
            handleDismissFlag(
                [conflictId |-> cid, reason |-> "RESOLVED", resolutionSourceId |-> sourceId,
                 note |-> <<"Resolved: User selected source \"">> \o NoteOf(sourceId).label
                            \o <<"\" as correct.">>,
                 timestamp |-> now])

\* the Restore link of a dismissed card
onRestore ==
    \E id \in DOMAIN dismissedFlags \cap ShownConflicts : handleRestoreFlag(id)

\* window.confirm answered yes, or not asked
handleResetCase ==
    /\ Ticks
    /\ now' = now + 1
    /\ patientDetails' = EmptyDetails
    /\ notes' = <<>>
    /\ result' = NullResult
    /\ dismissedFlags' = EmptyFlags
    /\ currentCaseId' = NullId
    /\ currentCaseHistory' = <<>>
    /\ hasUnsavedChanges' = FALSE
    /\ error' = FALSE
    /\ isAnalyzing' = FALSE
    /\ isSaving' = FALSE
    /\ origin' = NoOrigin
    /\ lastStep' = Did("handleResetCase")
    /\ viewSourceId' = NullNote
    /\ historyStack' = <<>>
    /\ debounce' = (IF historyStack # <<>> THEN isEditingSource ELSE debounce)
    /\ UNCHANGED <<draggedNoteId, isEditingSource, editSourceContent, historyStep>>
    /\ UNCHANGED <<removedIds, cases, storeVars, savePending, deletePending, analyzePending, uuids>>

IsBlank(text) == \A i \in 1..Len(text) : text[i] = " "     \* !text?.trim()

\* handleAnalyze up to `await analyzeNotes(notes)`; button disabled while analyzing
handleAnalyze ==
    /\ ~isAnalyzing
    /\ ~IsBlank(patientDetails.id)
    /\ ~IsBlank(patientDetails.encounterDate)
    /\ Len(notes) >= 2
    /\ Len(analyzePending) < MaxAnalyses
    /\ Ticks
    /\ isAnalyzing' = TRUE
    /\ error' = FALSE
    /\ currentCaseHistory' = logHistoryBare(currentCaseHistory, "ANALYSIS_STARTED")
    /\ analyzePending' = Append(analyzePending, [by |-> "handleAnalyze", notes |-> notes])
    /\ now' = now + 1
    /\ lastStep' = Did("handleAnalyze")
    /\ UNCHANGED editVars
    /\ UNCHANGED <<obsVars, workVars, currentCaseId, hasUnsavedChanges, isSaving, cases,
                   storeVars, savePending, deletePending, uuids>>

\* handleRunTest up to `await analyzeNotes(DEMO_NOTES)`
handleRunTest ==
    /\ Len(analyzePending) < MaxAnalyses
    /\ Ticks
    /\ notes' = DEMO_NOTES
    /\ patientDetails' = DEMO_PATIENT
    /\ result' = NullResult
    /\ dismissedFlags' = EmptyFlags
    /\ isAnalyzing' = TRUE
    /\ currentCaseId' = NullId
    /\ currentCaseHistory' = logHistoryBare(<<>>, "TEST_SCENARIO_LOADED")
    /\ hasUnsavedChanges' = TRUE
    /\ analyzePending' = Append(analyzePending, [by |-> "handleRunTest", notes |-> DEMO_NOTES])
    /\ now' = now + 1
    /\ origin' = IF origin.id # NullId THEN [origin EXCEPT !.runTest = TRUE] ELSE origin
    /\ lastStep' = Did("handleRunTest")
    /\ UNCHANGED editVars
    /\ UNCHANGED <<removedIds, isSaving, error, cases, storeVars, savePending, deletePending, uuids>>

\* the continuation of handleAnalyze / handleRunTest: analyzeNotes resolved
AnalysisResolved ==
    \E i \in 1..Len(analyzePending) :
        \E parsed \in ModelOutputs(analyzePending[i].notes) :
            LET data == analyzeNotes(parsed)
                logs == analyzePending[i].by = "handleAnalyze"
            IN  /\ result' = data
                /\ hasUnsavedChanges' = IF logs THEN TRUE ELSE hasUnsavedChanges
                /\ currentCaseHistory' =
                      IF logs
                      THEN logHistory(currentCaseHistory, "ANALYSIS_SUCCESS",
                              <<"Conflicts: ", ToString(Len(data.critical_conflicts))>>)
                      ELSE currentCaseHistory
                /\ isAnalyzing' = FALSE
                /\ analyzePending' = RemoveAt(analyzePending, i)
                /\ lastStep' = Step("analysis:resolved", analyzePending[i])
                /\ UNCHANGED editVars
                /\ UNCHANGED <<obsVars, patientDetails, notes, dismissedFlags, currentCaseId,
                               isSaving, error, cases, storeVars,
                               savePending, deletePending, now, uuids>>

\* the continuation of handleAnalyze / handleRunTest: analyzeNotes rejected
AnalysisRejected ==
    \E i \in 1..Len(analyzePending) :
        LET logs == analyzePending[i].by = "handleAnalyze"
        IN  /\ error' = TRUE
            /\ currentCaseHistory' =
                  IF logs
                  THEN logHistory(currentCaseHistory, "ANALYSIS_FAILED", <<"Analysis failed.">>)
                  ELSE currentCaseHistory
            /\ isAnalyzing' = FALSE
            /\ analyzePending' = RemoveAt(analyzePending, i)
            /\ lastStep' = Did("analysis:rejected")
            /\ UNCHANGED editVars
            /\ UNCHANGED <<obsVars, workVars, currentCaseId, hasUnsavedChanges, isSaving, cases,
                           storeVars, savePending, deletePending, now, uuids>>

(***************************************************************************)
(* Reordering the note cards, and the source viewer with its undo history. *)
(***************************************************************************)
caseVars == <<workVars, sessVars, storeVars, obsVars,
              savePending, deletePending, analyzePending, uuids>>

IndexOf(ns, id) ==
    IF \E i \in 1..Len(ns) : ns[i].id = id
    THEN CHOOSE i \in 1..Len(ns) : ns[i].id = id
    ELSE 0

\* newNotes.splice(sourceIndex, 1); newNotes.splice(targetIndex, 0, removed)
InsertAt(q, i, x) == SubSeq(q, 1, i - 1) \o <<x>> \o SubSeq(q, i, Len(q))
MoveNote(ns, sourceIndex, targetIndex) ==
    InsertAt(RemoveAt(ns, sourceIndex), targetIndex, ns[sourceIndex])

handleDragStart ==
    \E id \in NoteIds(notes) :
        /\ Ticks
        /\ draggedNoteId' = id
        /\ now' = now + 1
        /\ lastStep' = Step("handleDragStart", id)
        /\ UNCHANGED <<caseVars, viewSourceId, isEditingSource, editSourceContent,
                       historyStack, historyStep, debounce>>

handleDragOver ==
    \E id \in NoteIds(notes) :
        LET sourceIndex == IndexOf(notes, draggedNoteId)
            targetIndex == IndexOf(notes, id)
        IN  /\ draggedNoteId # NullNote
            /\ draggedNoteId # id
            /\ sourceIndex # 0
            /\ Ticks
            /\ notes' = MoveNote(notes, sourceIndex, targetIndex)
            /\ hasUnsavedChanges' = TRUE
            /\ now' = now + 1
            /\ lastStep' = Step("handleDragOver", id)
            /\ UNCHANGED <<editVars, obsVars, storeVars, patientDetails, result,
                           dismissedFlags, currentCaseId, currentCaseHistory, isSaving,
                           isAnalyzing, error, cases,
                           savePending, deletePending, analyzePending, uuids>>

handleDragEnd ==
    /\ draggedNoteId # NullNote
    /\ Ticks
    /\ draggedNoteId' = NullNote
    /\ now' = now + 1
    /\ lastStep' = Did("handleDragEnd")
    /\ UNCHANGED <<caseVars, viewSourceId, isEditingSource, editSourceContent,
                   historyStack, historyStep, debounce>>

\* notes.find(n => n.id === id)?.content || ''
ContentOf(id) == IF IndexOf(notes, id) = 0 THEN <<>> ELSE notes[IndexOf(notes, id)].content

\* Initialize History: setHistoryStack([content])
initialStackEmpty(content) == <<>>
initialStack(content) == <<content>>

\* a click on a note card, or View Source on a conflict card
handleViewSource ==
    \E id \in NoteIds(notes) :
        /\ Ticks
        /\ viewSourceId' = id
        /\ isEditingSource' = FALSE
        /\ editSourceContent' = ContentOf(id)
        /\ historyStack' = initialStack(ContentOf(id))
        /\ historyStep' = 0
        /\ debounce' = FALSE
        /\ now' = now + 1
        /\ lastStep' = Step("handleViewSource", id)
        /\ UNCHANGED <<caseVars, draggedNoteId>>

\* Edit Content: setIsEditingSource(true)
startEditing ==
    /\ viewSourceId # NullNote
    /\ ~isEditingSource
    /\ Ticks
    /\ isEditingSource' = TRUE
    /\ debounce' = TRUE
    /\ now' = now + 1
    /\ lastStep' = Did("startEditing")
    /\ UNCHANGED <<caseVars, draggedNoteId, viewSourceId, editSourceContent,
                   historyStack, historyStep>>

\* Cancel: setIsEditingSource(false)
cancelEditing ==
    /\ viewSourceId # NullNote
    /\ isEditingSource
    /\ Ticks
    /\ isEditingSource' = FALSE
    /\ debounce' = FALSE
    /\ now' = now + 1
    /\ lastStep' = Did("cancelEditing")
    /\ UNCHANGED <<caseVars, draggedNoteId, viewSourceId, editSourceContent,
                   historyStack, historyStep>>

\* the viewer's backdrop, its cross and Close Viewer: setViewSourceId(null)
closeViewer ==
    /\ viewSourceId # NullNote
    /\ Ticks
    /\ viewSourceId' = NullNote
    /\ now' = now + 1
    /\ lastStep' = Did("closeViewer")
    /\ UNCHANGED <<caseVars, draggedNoteId, isEditingSource, editSourceContent,
                   historyStack, historyStep, debounce>>

EditInputs == {<<"B">>, <<"C">>, <<"D">>}

\* the textarea's onChange: setEditSourceContent(e.target.value)
handleEditChange ==
    \E value \in EditInputs :
        /\ viewSourceId # NullNote
        /\ isEditingSource
        /\ value # editSourceContent
        /\ Ticks
        /\ editSourceContent' = value
        /\ debounce' = TRUE
        /\ now' = now + 1
        /\ lastStep' = Step("handleEditChange", value)
        /\ UNCHANGED <<caseVars, draggedNoteId, viewSourceId, isEditingSource,
                       historyStack, historyStep>>

\* the history effect's timeout: historyStack.slice(0, historyStep + 1), push
recordKeepsRedo(stack, step, content) ==
    IF Len(stack) > 0 /\ (step + 1 > Len(stack) \/ content # stack[step + 1])
    THEN [stack |-> Append(stack, content), step |-> Len(stack)]
    ELSE [stack |-> stack, step |-> step]

record(stack, step, content) ==
    IF Len(stack) > 0 /\ (step + 1 > Len(stack) \/ content # stack[step + 1])
    THEN LET kept == IF step + 1 < Len(stack) THEN step + 1 ELSE Len(stack)
             newHistory == Append(SubSeq(stack, 1, kept), content)
         IN  [stack |-> newHistory, step |-> Len(newHistory) - 1]
    ELSE [stack |-> stack, step |-> step]

\* the timeout fires 800 ms after the effect last ran; a change it makes
\* runs the effect again
DebounceFired ==
    LET r == record(historyStack, historyStep, editSourceContent)
    IN  /\ debounce
        /\ historyStack' = r.stack
        /\ historyStep' = r.step
        /\ debounce' = (r.stack # historyStack \/ r.step # historyStep)
        /\ lastStep' = [op |-> "debounce", arg |-> editSourceContent, pre |-> Snapshot,
                        after |-> IF lastStep.op \in {"handleUndo", "handleRedo"}
                                  THEN <<lastStep.op, lastStep.arg>>
                                  ELSE <<"other", FALSE>>]
        /\ UNCHANGED <<caseVars, now, draggedNoteId, viewSourceId, isEditingSource,
                       editSourceContent>>

\* const prevStep = historyStep - 1; const nextStep = historyStep + 1
prevStepStays(step) == step
prevStep(step) == step - 1
nextStep(step) == step + 1

\* App.handleUndo, whoever calls it; a change of cursor or text runs the
\* history effect again
handleUndo ==
    /\ IF historyStep > 0
       THEN /\ historyStep' = prevStep(historyStep)
            /\ editSourceContent' = historyStack[prevStep(historyStep) + 1]
            /\ debounce' = isEditingSource
       ELSE UNCHANGED <<historyStep, editSourceContent, debounce>>
    /\ lastStep' = Step("handleUndo", historyStep > 0)
    /\ UNCHANGED <<caseVars, now, draggedNoteId, viewSourceId, isEditingSource, historyStack>>

\* App.handleRedo, whoever calls it
handleRedo ==
    /\ IF historyStep < Len(historyStack) - 1
       THEN /\ historyStep' = nextStep(historyStep)
            /\ editSourceContent' = historyStack[nextStep(historyStep) + 1]
            /\ debounce' = isEditingSource
       ELSE UNCHANGED <<historyStep, editSourceContent, debounce>>
    /\ lastStep' = Step("handleRedo", historyStep < Len(historyStack) - 1)
    /\ UNCHANGED <<caseVars, now, draggedNoteId, viewSourceId, isEditingSource, historyStack>>

\* the Undo button, disabled at historyStep <= 0
undoButton ==
    /\ viewSourceId # NullNote
    /\ isEditingSource
    /\ historyStep > 0
    /\ handleUndo

\* the Redo button, disabled at historyStep >= historyStack.length - 1
redoButton ==
    /\ viewSourceId # NullNote
    /\ isEditingSource
    /\ historyStep < Len(historyStack) - 1
    /\ handleRedo

\* Save Changes
saveSourceEdit ==
    /\ viewSourceId # NullNote
    /\ isEditingSource
    /\ Ticks
    /\ notes' = [i \in 1..Len(notes) |->
                    IF notes[i].id = viewSourceId
                    THEN [notes[i] EXCEPT !.content = editSourceContent]
                    ELSE notes[i]]
    /\ hasUnsavedChanges' = TRUE
    /\ currentCaseHistory' =
          logHistory(currentCaseHistory, "NOTE_EDITED",
                     <<"Modified content of note ", viewSourceId>>)
    /\ isEditingSource' = FALSE
    /\ result' = NullResult
    /\ debounce' = FALSE
    /\ now' = now + 1
    /\ lastStep' = Step("saveSourceEdit", viewSourceId)
    /\ UNCHANGED <<obsVars, storeVars, patientDetails, dismissedFlags, currentCaseId,
                   isSaving, isAnalyzing, error, cases,
                   savePending, deletePending, analyzePending, uuids,
                   draggedNoteId, viewSourceId, editSourceContent, historyStack, historyStep>>

(***************************************************************************)
(* Case management: saveCase, loadCase, deleteCase of App.                 *)
(***************************************************************************)
caseName(details) ==
    <<"Case: ">> \o details.id \o <<" (">>
        \o (IF details.encounterDate = <<>> THEN <<"No Date">> ELSE details.encounterDate)
        \o <<")">>

\* the Save Case button: absent while an error is shown, disabled without a
\* result and while isSaving
SaveButtonEnabled == ~error /\ result # NullResult /\ ~isSaving

saveEventAlwaysCreated(bound) == "CASE_CREATED"
saveEventAction(bound) == IF bound # NullId THEN "CASE_UPDATED" ELSE "CASE_CREATED"

newCaseId(bound, n) == IF bound # NullId THEN bound ELSE n + 1   \* crypto.randomUUID()

\* App.saveCase up to `await storageService.updateCase / saveCase`
saveCaseBegin ==
    LET saveEvent == Event(now, saveEventAction(currentCaseId), <<"Saved by user.">>)
        updatedHistory == <<saveEvent>> \o currentCaseHistory
        caseData == [id |-> newCaseId(currentCaseId, uuids),
                     name |-> caseName(patientDetails),
                     patientDetails |-> patientDetails,
                     notes |-> notes,
                     result |-> result,
                     dismissedFlags |-> dismissedFlags,
                     timestamp |-> now,
                     history |-> updatedHistory]
    IN  /\ SaveButtonEnabled
        /\ patientDetails.id # <<>>
        /\ Len(savePending) < MaxSaves
        /\ Ticks
        /\ isSaving' = TRUE
        /\ currentCaseHistory' = updatedHistory
        /\ savePending' = Append(savePending, [caseData |-> caseData, bound |-> currentCaseId,
                                                since |-> origin.id])
        /\ uuids' = IF currentCaseId = NullId THEN uuids + 1 ELSE uuids
        /\ now' = now + 1
        /\ lastStep' = Step("saveCase", caseData)
        /\ UNCHANGED editVars
        /\ UNCHANGED <<obsVars, workVars, currentCaseId, hasUnsavedChanges, isAnalyzing, error,
                       cases, storeVars, deletePending, analyzePending>>

\* updateCase when the session was bound as saveCase() began, saveCase otherwise
saveCaseAlwaysCreates(bound) == "saveCase"
saveCaseUses(bound) == IF bound # NullId THEN "updateCase" ELSE "saveCase"

\* setCurrentCaseId(caseData.id) in the create branch
saveCaseBinds(bound, id, current, ok) == IF ok /\ bound = NullId THEN id ELSE current

\* setHasUnsavedChanges(false) after the store call, skipped when it threw
saveCaseClearsFlagAnyway(flag, ok) == FALSE
saveCaseFlag(flag, ok) == IF ok THEN FALSE ELSE flag

\* the continuation of App.saveCase: the store call returned or threw
saveCaseEnd ==
    \E i \in 1..Len(savePending), writeOk \in BOOLEAN :
        LET p == savePending[i]
            op == saveCaseUses(p.bound)
            res == IF op = "updateCase"
                   THEN updateCase(medium, p.caseData, writeOk)
                   ELSE saveCase(medium, p.caseData, writeOk)
        IN  /\ medium' = res.medium
            /\ call' = Call(op, p.caseData, medium, writeOk, res)
            /\ cases' = IF res.ok THEN res.ret.items ELSE cases
            /\ currentCaseId' = saveCaseBinds(p.bound, p.caseData.id, currentCaseId, res.ok)
            /\ hasUnsavedChanges' = saveCaseFlag(hasUnsavedChanges, res.ok)
            /\ isSaving' = FALSE
            /\ savePending' = RemoveAt(savePending, i)
            /\ origin' = IF res.ok /\ p.bound = NullId THEN BoundBySave(p.caseData.id)
                         ELSE origin
            /\ lastStep' = Step("saveCase:end", p)
            /\ UNCHANGED editVars
            /\ UNCHANGED <<workVars, currentCaseHistory, isAnalyzing, error,
                           deletePending, analyzePending, now, uuids, removedIds>>

\* c.history || []
HistoryOf(c) == IF "history" \in DOMAIN c THEN c.history ELSE <<>>

loadCaseKeepsHistory(c) == logHistory(currentCaseHistory, "CASE_LOADED", <<"Loaded from storage.">>)
loadCaseHistory(c) == logHistory(HistoryOf(c), "CASE_LOADED", <<"Loaded from storage.">>)

\* App.loadCase on a row of the case list
loadCase ==
    \E i \in 1..Len(cases) :
        LET c == cases[i]
        IN  /\ Ticks
            /\ patientDetails' = c.patientDetails
            /\ notes' = c.notes
            /\ result' = c.result
            /\ dismissedFlags' = c.dismissedFlags
            /\ currentCaseId' = c.id
            /\ currentCaseHistory' = loadCaseHistory(c)
            /\ hasUnsavedChanges' = FALSE
            /\ error' = FALSE
            /\ now' = now + 1
            /\ origin' = NoOrigin
            /\ lastStep' = Step("loadCase", c)
            /\ UNCHANGED editVars
            /\ UNCHANGED <<removedIds, isSaving, isAnalyzing, cases, storeVars,
                           savePending, deletePending, analyzePending, uuids>>

\* App.deleteCase up to `await storageService.deleteCase(id)`, confirm answered yes
deleteCaseBegin ==
    \E i \in 1..Len(cases) :
        /\ Len(deletePending) < MaxDeletes
        /\ Ticks
        /\ deletePending' = Append(deletePending, [id |-> cases[i].id, bound |-> currentCaseId])
        /\ now' = now + 1
        /\ lastStep' = Did("deleteCase")
        /\ UNCHANGED editVars
        /\ UNCHANGED <<obsVars, workVars, sessVars, storeVars, savePending, analyzePending, uuids>>

deleteCaseKeepsBinding(bound, id, current) == current
deleteCaseUnbinds(bound, id, current) == IF bound = id THEN NullId ELSE current

\* the continuation of App.deleteCase
deleteCaseEnd ==
    \E i \in 1..Len(deletePending), writeOk \in BOOLEAN :
        LET p == deletePending[i]
            res == deleteCase(medium, p.id, writeOk)
            detach == res.ok /\ p.bound = p.id
        IN  /\ medium' = res.medium
            /\ call' = Call("deleteCase", p.id, medium, writeOk, res)
            /\ cases' = IF res.ok THEN res.ret.items ELSE cases
            /\ currentCaseId' = IF res.ok THEN deleteCaseUnbinds(p.bound, p.id, currentCaseId)
                                ELSE currentCaseId
            /\ hasUnsavedChanges' = IF detach THEN TRUE ELSE hasUnsavedChanges
            /\ currentCaseHistory' =
                  IF detach
                  THEN logHistory(currentCaseHistory, "STORAGE_DELETED",
                                  <<"Case deleted from DB but active in session.">>)
                  ELSE currentCaseHistory
            /\ deletePending' = RemoveAt(deletePending, i)
            /\ removedIds' = IF res.ok /\ HasId(loadCases(medium).items, p.id)
                              THEN removedIds \cup {p.id} ELSE removedIds
            /\ origin' = IF ~res.ok \/ origin.id = NullId THEN origin
                         ELSE IF p.id = origin.id THEN NoOrigin
                         ELSE IF detach THEN [origin EXCEPT !.detached = TRUE]
                         ELSE origin
            /\ lastStep' = Step("deleteCase:end", p)
            /\ UNCHANGED editVars
            /\ UNCHANGED <<workVars, isSaving, isAnalyzing, error,
                           savePending, analyzePending, now, uuids>>

\* a case saved by an earlier session, as saveCase leaves it in the medium
EarlierCase ==
    LET details == [id |-> <<"p", "&">>, name |-> <<>>, age |-> <<>>, location |-> <<>>,
                    encounterDate |-> <<"d">>]
        ns == << [id |-> "n1", type |-> "text", content |-> <<"a", "<", "b">>,
                  label |-> <<"l1">>],
                 [id |-> "n2", type |-> "image", content |-> <<"c">>, label |-> <<"l", "'">>] >>
    IN  sanitizeCase(
            [id |-> 1,
             name |-> caseName(details),
             patientDetails |-> details,
             notes |-> ns,
             result |-> SampleResult,
             dismissedFlags |-> [k \in {"c1"} |-> [conflictId |-> "c1",
                                    reason |-> "FALSE_POSITIVE", note |-> <<>>, timestamp |-> 0]],
             timestamp |-> 0,
             history |-> <<Event(0, "CASE_CREATED", <<"Saved by user.">>)>>])

\* a record written before cases had a history
LegacyCase ==
    LET c == sanitizeCase(BareCase(2))
    IN  [f \in DOMAIN c \ {"history"} |-> c[f]]

Init ==
    /\ medium \in {Absent, JSONStringify(JsArray(<<EarlierCase, LegacyCase>>))}
    /\ call = NoCall
    /\ cases = loadCases(medium).items
    /\ AppInit

Next ==
    \/ handlePatientDetailsChange
    \/ handleAddNote
    \/ handleRemoveNote
    \/ submitDismissal
    \/ handleResolve
    \/ onRestore
    \/ handleResetCase
    \/ handleAnalyze
    \/ handleRunTest
    \/ AnalysisResolved
    \/ AnalysisRejected
    \/ saveCaseBegin
    \/ saveCaseEnd
    \/ loadCase
    \/ deleteCaseBegin
    \/ deleteCaseEnd
    \/ handleDragStart
    \/ handleDragOver
    \/ handleDragEnd
    \/ handleViewSource
    \/ startEditing
    \/ cancelEditing
    \/ closeViewer
    \/ handleEditChange
    \/ DebounceFired
    \/ undoButton
    \/ redoButton
    \/ saveSourceEdit

Spec == Init /\ [][Next]_vars

(***************************************************************************)
(* SpecStore: the four storageService operations on any stored value.      *)
(***************************************************************************)
InitStore ==
    /\ medium \in MediumInputs
    /\ call = NoCall
    /\ cases = <<>>
    /\ AppInit

Fits(m) == Len(loadCases(m).items) <= MaxStored

\* the medium before the preceding call, when that call was the same
\* operation on the same argument and succeeded
NoPrior == [kind |-> "none"]
Prior(op, arg) ==
    IF call.op = op /\ call.arg = arg /\ call.ok THEN call.before ELSE NoPrior

StoreSaveCase ==
    \E c \in CaseInputs, writeOk \in BOOLEAN :
        LET res == saveCase(medium, c, writeOk)
        IN  /\ Fits(medium)
            /\ medium' = res.medium
            /\ call' = Call("saveCase", c, medium, writeOk, res)

StoreUpdateCase ==
    \E c \in CaseInputs, writeOk \in BOOLEAN :
        LET res == updateCase(medium, c, writeOk)
        IN  /\ Fits(medium)
            /\ medium' = res.medium
            /\ call' = [f \in DOMAIN Call("updateCase", c, medium, writeOk, res) \cup {"prior"} |->
                            IF f = "prior" THEN Prior("updateCase", c)
                            ELSE Call("updateCase", c, medium, writeOk, res)[f]]

StoreDeleteCase ==
    \E id \in CaseIds, writeOk \in BOOLEAN :
        LET res == deleteCase(medium, id, writeOk)
        IN  /\ medium' = res.medium
            /\ call' = Call("deleteCase", id, medium, writeOk, res)

StoreLoadCases ==
    /\ call' = [op |-> "loadCases", arg |-> None, before |-> medium, writeOk |-> TRUE,
                ok |-> TRUE, ret |-> loadCases(medium)]
    /\ UNCHANGED medium

NextStore ==
    /\ \/ StoreSaveCase
       \/ StoreUpdateCase
       \/ StoreDeleteCase
       \/ StoreLoadCases
    /\ UNCHANGED <<workVars, sessVars, procVars, obsVars, editVars>>

SpecStore == InitStore /\ [][NextStore]_vars

(***************************************************************************)
(* SpecLedger: App.handleDismissFlag and App.handleRestoreFlag on any       *)
(* record and any id, as a caller other than the conflict cards may pass.   *)
(***************************************************************************)
InitLedger ==
    /\ medium = Absent
    /\ call = NoCall
    /\ cases = <<>>
    /\ AppInit

RecordInputs ==
    {[conflictId |-> c, reason |-> r, note |-> <<>>, timestamp |-> now] :
        c \in {"", "c1", "c2"}, r \in {"FALSE_POSITIVE", "OTHER"}}

LedgerDismiss == \E rec \in RecordInputs : handleDismissFlag(rec)

LedgerRestore == \E id \in {"c1", "c2", "c3"} : handleRestoreFlag(id)

NextLedger ==
    \/ LedgerDismiss
    \/ LedgerRestore

SpecLedger == InitLedger /\ [][NextLedger]_vars

(***************************************************************************)
(* SpecEdit: the source viewer, from a session with two notes added and    *)
(* the viewer open on the first of them, in edit mode.                     *)
(***************************************************************************)
Note1 == CHOOSE n \in NoteInputs : n.id = "n1"
Note2 == CHOOSE n \in NoteInputs : n.id = "n2"

InitEdit ==
    /\ medium = Absent
    /\ call = NoCall
    /\ cases = <<>>
    /\ patientDetails = EmptyDetails
    /\ notes = <<Note1, Note2>>
    /\ result = NullResult
    /\ dismissedFlags = EmptyFlags
    /\ currentCaseId = NullId
    /\ currentCaseHistory =
          << Event(-2, "NOTE_ADDED", <<"Type: ", Note2.type, ", Label: ">> \o Note2.label),
             Event(-3, "NOTE_ADDED", <<"Type: ", Note1.type, ", Label: ">> \o Note1.label) >>
    /\ hasUnsavedChanges = TRUE
    /\ isSaving = FALSE
    /\ isAnalyzing = FALSE
    /\ error = FALSE
    /\ savePending = <<>>
    /\ deletePending = <<>>
    /\ analyzePending = <<>>
    /\ lastStep = [op |-> "startEditing"]
    /\ now = 1
    /\ uuids = 0
    /\ removedIds = {}
    /\ origin = NoOrigin
    /\ draggedNoteId = NullNote
    /\ viewSourceId = Note1.id
    /\ isEditingSource = TRUE
    /\ editSourceContent = Note1.content
    /\ historyStack = <<Note1.content>>
    /\ historyStep = 0
    /\ debounce = TRUE

\* handleUndo and handleRedo called in any state of the edit mode
undoCalled == viewSourceId # NullNote /\ isEditingSource /\ handleUndo
redoCalled == viewSourceId # NullNote /\ isEditingSource /\ handleRedo

NextEdit ==
    \/ handleViewSource
    \/ startEditing
    \/ cancelEditing
    \/ closeViewer
    \/ handleEditChange
    \/ DebounceFired
    \/ undoCalled
    \/ redoCalled
    \/ saveSourceEdit

SpecEdit == InitEdit /\ [][NextEdit]_vars

(***************************************************************************)
(* Claims about the store.                                                 *)
(***************************************************************************)
Before == loadCases(call.before)      \* loadAll() before the call
After  == loadCases(medium)           \* loadAll() after the call
Succeeded(op) == call.op = op /\ call.ok

\* C1: after a successful create(c), loadAll() is [sanitize(c)] followed by
\* the prior collection, entry for entry: one entry more, none merged by id,
\* none changed or dropped.
C1_CreatePrepends ==
    Succeeded("saveCase") =>
        /\ After.array
        /\ After.items = <<sanitizeCase(call.arg)>> \o Before.items
        /\ Len(After.items) = Len(Before.items) + 1
        /\ \A i \in 1..Len(Before.items) : After.items[i + 1] = Before.items[i]

C1_Witness ==
    /\ Succeeded("saveCase")
    /\ Len(Before.items) = 2
    /\ \E i \in 1..Len(Before.items) : Before.items[i].id = call.arg.id
    /\ sanitizeCase(call.arg) # call.arg

\* C2: update(c) replaces the entry of c.id by sanitize(c) where it stands
\* (same length, the other entries and the order untouched); without such an
\* entry the result is that of create(c); the returned list is the persisted one.
C2_UpdateReplacesInPlace ==
    Succeeded("updateCase") =>
        LET P == Before.items
            s == sanitizeCase(call.arg)
        IN  /\ call.ret = After
            /\ HasId(P, call.arg.id) =>
                  /\ Len(After.items) = Len(P)
                  /\ \E i \in 1..Len(P) :
                        /\ P[i].id = call.arg.id
                        /\ \A j \in 1..(i - 1) : P[j].id # call.arg.id
                        /\ After.items[i] = s
                        /\ \A j \in 1..Len(P) : j # i => After.items[j] = P[j]
            /\ ~HasId(P, call.arg.id) =>
                  /\ After.items = <<s>> \o P
                  /\ After = saveCase(call.before, call.arg, TRUE).ret

C2_Witness ==
    /\ Succeeded("updateCase")
    /\ Len(Before.items) = 2
    /\ Before.items[1].id # call.arg.id
    /\ Before.items[2].id = call.arg.id
    /\ Before.items[2] # sanitizeCase(call.arg)
    /\ After.items[1] = Before.items[1]

\* C3: after delete(id) on a medium that takes the write, whatever was stored
\* before, loadAll() has no entry of that id and keeps all the others in
\* their order; when no entry had the id, loadAll() returns what it returned
\* before.
C3_DeleteRemovesEveryEntry ==
    (call.op = "deleteCase" /\ call.writeOk) =>
        /\ ~HasId(After.items, call.arg)
        /\ After.items = SelectSeq(Before.items, LAMBDA c : c.id # call.arg)
        /\ ~HasId(Before.items, call.arg) => After = Before

C3_Witness ==
    /\ Succeeded("deleteCase")
    /\ Len(Before.items) = 3
    /\ Len(After.items) = 1
    /\ Before.items[1].id = call.arg
    /\ Before.items[2].id = call.arg
    /\ Before.items[3] = After.items[1]

\* C9: when the write to the medium fails, create, update and delete report
\* an error to the caller and the persisted collection is the one from
\* before the call.
C9_FailedWriteLeavesStore ==
    (call.op \in {"saveCase", "updateCase", "deleteCase"} /\ ~call.writeOk) =>
        /\ ~call.ok
        /\ "error" \in DOMAIN call.ret
        /\ medium = call.before
        /\ After = Before

C9_Witness ==
    /\ call.op = "saveCase"
    /\ ~call.writeOk
    /\ ~call.ok
    /\ Len(Before.items) = 1

\* C10: loadAll() never fails and always yields a list, the empty one when
\* the stored value is absent or cannot be deserialized; create, update and
\* delete on such a value start from the empty collection.
C10_LoadAllYieldsList ==
    /\ call.op = "loadCases" => call.ok /\ call.ret.array
    /\ (call.op = "loadCases" /\ call.before \in {Absent, EmptyText, Garbage})
            => call.ret = JsArray(<<>>)
    /\ (Succeeded("saveCase") /\ call.before \in {Absent, EmptyText, Garbage})
            => After.items = <<sanitizeCase(call.arg)>>

(***************************************************************************)
(* Claims about the session.                                               *)
(***************************************************************************)
Stored == loadCases(medium).items                 \* loadAll() now
StoredCase(id) == Stored[FindIndex(Stored, id)]   \* the persisted record of an id
SaveEnded == lastStep.op = "saveCase:end"
SaveSucceeded == SaveEnded /\ call.ok
SameWorkingSet ==
    /\ patientDetails = lastStep.pre.patientDetails
    /\ notes = lastStep.pre.notes
    /\ result = lastStep.pre.result
    /\ dismissedFlags = lastStep.pre.dismissedFlags

\* C4 as stated: once a save() has bound an identity, every later successful
\* save() with no Reset, load or delete of that id in between writes the same
\* id through update, adds no persisted record and leaves that id bound.
C4_BoundIdentityKept ==
    (/\ SaveSucceeded
     /\ lastStep.arg.since # NullId
     /\ lastStep.pre.origin.id = lastStep.arg.since) =>
        /\ call.op = "updateCase"
        /\ call.arg.id = lastStep.arg.since
        /\ Len(Stored) <= Len(lastStep.pre.stored)
        /\ currentCaseId # NullId => currentCaseId = lastStep.arg.since

\* C4, amended: the same, and the session stays bound to that id, for a
\* save() with no Reset, load, run-test scenario or delete that unbinds the
\* session between the binding and the save.
C4_BoundIdentityKeptUnlessDetached ==
    (/\ SaveSucceeded
     /\ lastStep.arg.since # NullId
     /\ lastStep.pre.origin.id = lastStep.arg.since
     /\ ~lastStep.pre.origin.runTest
     /\ ~lastStep.pre.origin.detached) =>
        /\ call.op = "updateCase"
        /\ call.arg.id = lastStep.arg.since
        /\ Len(Stored) <= Len(lastStep.pre.stored)
        /\ currentCaseId = lastStep.arg.since

C4_Witness ==
    /\ SaveSucceeded
    /\ lastStep.arg.since # NullId
    /\ lastStep.pre.origin = BoundBySave(lastStep.arg.since)
    /\ call.op = "updateCase"
    /\ lastStep.pre.hasUnsavedChanges
    /\ Len(Stored) = 3

\* what saveCase() does before the store call: the event of this save heads
\* the history of the snapshot, tagged by the binding at that time, and the
\* medium is as it was
SaveEventFirst ==
    lastStep.op = "saveCase" =>
        LET c == lastStep.arg
        IN  /\ Len(c.history) = Len(lastStep.pre.currentCaseHistory) + 1
            /\ Tail(c.history) = lastStep.pre.currentCaseHistory
            /\ Head(c.history).action = "CASE_CREATED"
                  <=> lastStep.pre.currentCaseId = NullId
            /\ Head(c.history).action = "CASE_UPDATED"
                  <=> lastStep.pre.currentCaseId # NullId
            /\ currentCaseHistory = c.history
            /\ Stored = lastStep.pre.stored

SaveEventPersisted ==
    SaveSucceeded =>
        LET p == lastStep.arg
        IN  /\ HasId(Stored, p.caseData.id)
            /\ StoredCase(p.caseData.id).history = p.caseData.history
            /\ Head(StoredCase(p.caseData.id).history).action =
                  (IF p.bound = NullId THEN "CASE_CREATED" ELSE "CASE_UPDATED")

\* C5: a successful save() persists a history that holds the event of that
\* save, put there before the store call and tagged CASE_CREATED exactly when
\* no identity was bound as save() was called; the history in memory is the
\* persisted one from the call on, and the end of the save leaves it so (it
\* changes the history in memory in no case).
C5_SaveEventInSnapshot ==
    /\ SaveEventFirst
    /\ SaveEventPersisted
    /\ SaveEnded => currentCaseHistory = lastStep.pre.currentCaseHistory
    /\ (SaveSucceeded /\ lastStep.pre.currentCaseHistory = lastStep.arg.caseData.history) =>
          currentCaseHistory = StoredCase(lastStep.arg.caseData.id).history

C5_Witness ==
    /\ SaveSucceeded
    /\ lastStep.arg.bound # NullId
    /\ Len(StoredCase(lastStep.arg.caseData.id).history) >= 3
    /\ Head(StoredCase(lastStep.arg.caseData.id).history).action = "CASE_UPDATED"
    /\ currentCaseHistory = StoredCase(lastStep.arg.caseData.id).history

\* C6: deleting the id the session is bound to removes the record, leaves the
\* working set as it is, unbinds the session and leaves it dirty; the save()
\* after it creates a record under an id that is not the deleted one.
C6_DeleteDetaches ==
    /\ (lastStep.op = "deleteCase:end" /\ call.ok /\ lastStep.arg.bound = lastStep.arg.id) =>
          /\ ~HasId(Stored, lastStep.arg.id)
          /\ SameWorkingSet
          /\ currentCaseId = NullId
          /\ hasUnsavedChanges
    /\ (lastStep.op = "saveCase" /\ lastStep.pre.currentCaseId = NullId) =>
          /\ savePending[Len(savePending)].bound = NullId
          /\ lastStep.arg.id \notin removedIds
          /\ ~HasId(Stored, lastStep.arg.id)
    /\ (SaveSucceeded /\ lastStep.arg.bound = NullId) =>
          /\ call.op = "saveCase"
          /\ HasId(Stored, lastStep.arg.caseData.id)
          /\ lastStep.arg.caseData.id \notin removedIds

C6_Witness ==
    /\ SaveSucceeded
    /\ call.op = "saveCase"
    /\ removedIds # {}
    /\ Len(call.arg.history) >= 2
    /\ call.arg.history[2].action = "STORAGE_DELETED"
    /\ call.arg.dismissedFlags # EmptyFlags

\* C7: load(c) makes the working set the snapshot's, binds c.id, leaves no
\* unsaved changes and puts one CASE_LOADED event on the snapshot's history,
\* in memory only; a snapshot without history loads with an empty one.
C7_LoadReplacesWorkingSet ==
    lastStep.op = "loadCase" =>
        LET c == lastStep.arg
            h == IF "history" \in DOMAIN c THEN c.history ELSE <<>>
        IN  /\ patientDetails = c.patientDetails
            /\ notes = c.notes
            /\ result = c.result
            /\ dismissedFlags = c.dismissedFlags
            /\ currentCaseId = c.id
            /\ ~hasUnsavedChanges
            /\ Len(currentCaseHistory) = Len(h) + 1
            /\ Head(currentCaseHistory).action = "CASE_LOADED"
            /\ Tail(currentCaseHistory) = h
            /\ Stored = lastStep.pre.stored

C7_Witness ==
    /\ lastStep.op = "loadCase"
    /\ "history" \notin DOMAIN lastStep.arg
    /\ Len(currentCaseHistory) = 1
    /\ lastStep.pre.hasUnsavedChanges
    /\ lastStep.pre.dismissedFlags # EmptyFlags
    /\ lastStep.pre.currentCaseId \notin {NullId, lastStep.arg.id}

\* C8: when the store call of save() fails, notes, patient details, result
\* and dismissedFlags stay as they are, no identity is bound, the
\* unsaved-changes flag is not cleared and isSaving is false again.
C8_FailedSaveKeepsSession ==
    (SaveEnded /\ ~call.ok) =>
        /\ SameWorkingSet
        /\ currentCaseId = lastStep.pre.currentCaseId
        /\ hasUnsavedChanges = lastStep.pre.hasUnsavedChanges
        /\ ~isSaving
        /\ Stored = lastStep.pre.stored

C8_Witness ==
    /\ SaveEnded
    /\ ~call.ok
    /\ lastStep.arg.bound = NullId
    /\ currentCaseId = NullId
    /\ hasUnsavedChanges
    /\ dismissedFlags # EmptyFlags
    /\ lastStep.pre.isSaving

(***************************************************************************)
(* Claims about the dismissal ledger.                                      *)
(***************************************************************************)
\* C11: in every reachable state each key of dismissedFlags is the id of a
\* conflict of the current result, so dismissedFlags is empty while result
\* is null.
C11_FlagsWithinResult ==
    /\ DOMAIN dismissedFlags \subseteq ConflictIds(result)
    /\ result = NullResult => dismissedFlags = EmptyFlags

\* C12: dismiss(r) sets the entry of r.conflictId to r and changes no other
\* entry (a second dismiss of the same key leaves the later record only);
\* restore(id) removes the entry of id and changes no other entry, and leaves
\* the mapping as it is when id has no entry.
C12_LedgerIsMap ==
    LET old == lastStep.pre.dismissedFlags
    IN  /\ lastStep.op = "handleDismissFlag" =>
              /\ DOMAIN dismissedFlags = DOMAIN old \cup {lastStep.arg.conflictId}
              /\ dismissedFlags[lastStep.arg.conflictId] = lastStep.arg
              /\ \A k \in DOMAIN old : k # lastStep.arg.conflictId => dismissedFlags[k] = old[k]
        /\ lastStep.op = "handleRestoreFlag" =>
              /\ DOMAIN dismissedFlags = DOMAIN old \ {lastStep.arg}
              /\ \A k \in DOMAIN dismissedFlags : dismissedFlags[k] = old[k]
              /\ lastStep.arg \notin DOMAIN old => dismissedFlags = old

C12_Witness ==
    /\ lastStep.op = "handleDismissFlag"
    /\ lastStep.arg.conflictId \in DOMAIN lastStep.pre.dismissedFlags
    /\ lastStep.pre.dismissedFlags[lastStep.arg.conflictId] # lastStep.arg
    /\ Cardinality(DOMAIN dismissedFlags) = 2

\* C13: resolve(conflictId, sourceId) leaves the record of conflictId with
\* reason RESOLVED and that resolutionSourceId; a sourceId that is not among
\* the conflict's sources is refused, so no record kept for a conflict names
\* a resolutionSourceId outside the source ids of that conflict.
C13_ResolutionAmongSources ==
    /\ (lastStep.op = "handleDismissFlag" /\ lastStep.arg.reason = "RESOLVED") =>
            /\ dismissedFlags[lastStep.arg.conflictId].reason = "RESOLVED"
            /\ dismissedFlags[lastStep.arg.conflictId].resolutionSourceId
                    = lastStep.arg.resolutionSourceId
    /\ \A k \in DOMAIN dismissedFlags \cap ConflictIds(result) :
            "resolutionSourceId" \in DOMAIN dismissedFlags[k] =>
                dismissedFlags[k].resolutionSourceId \in Conflict(k).source_ids

\* C14: dismiss(record) with an empty conflictId is refused: dismissedFlags
\* gains no entry, no audit event is added and the unsaved-changes flag stays
\* as it was.
C14_EmptyIdRefused ==
    (lastStep.op = "handleDismissFlag" /\ lastStep.arg.conflictId = "") =>
        /\ dismissedFlags = lastStep.pre.dismissedFlags
        /\ currentCaseHistory = lastStep.pre.currentCaseHistory
        /\ hasUnsavedChanges = lastStep.pre.hasUnsavedChanges

(***************************************************************************)
(* Claims about the undo history of the source viewer.                     *)
(***************************************************************************)
\* C20: record(content) with content other than stack[cursor] cuts the stack
\* after the cursor, appends content and moves the cursor to the new last
\* index, so what lay beyond the cursor is out of reach of redo; with
\* content equal to stack[cursor] it changes neither stack nor cursor.
C20_RecordTruncates ==
    lastStep.op = "debounce" =>
        LET stack == lastStep.pre.historyStack
            cursor == lastStep.pre.historyStep + 1
            content == lastStep.arg
        IN  /\ content = lastStep.pre.editSourceContent
            /\ (cursor <= Len(stack) /\ content # stack[cursor]) =>
                  /\ historyStack = Append(SubSeq(stack, 1, cursor), content)
                  /\ Len(historyStack) = cursor + 1
                  /\ historyStep = Len(historyStack) - 1
            /\ (cursor <= Len(stack) /\ content = stack[cursor]) =>
                  /\ historyStack = stack
                  /\ historyStep = lastStep.pre.historyStep

C20_Witness ==
    /\ lastStep.op = "debounce"
    /\ lastStep.pre.historyStack = <<Note1.content, <<"B">>, <<"C">>>>
    /\ lastStep.pre.historyStep = 1
    /\ historyStack = <<Note1.content, <<"B">>, <<"D">>>>
    /\ historyStep = 2

(***************************************************************************)
(* Claims about the audit history.                                         *)
(***************************************************************************)
\* the rows of the Case History Log modal: currentCaseHistory.map(...)
HistoryLogRows == currentCaseHistory

\* the steps that replace the history wholesale
ReplacesHistory == {"mount", "handleResetCase", "loadCase", "handleRunTest"}

\* old is the tail of new: every event of old is in new, as it was and where
\* it was relative to the others
KeepsEvents(old, new) ==
    /\ Len(old) <= Len(new)
    /\ SubSeq(new, Len(new) - Len(old) + 1, Len(new)) = old

\* C15: apart from Reset, load and the run-test scenario, every step leaves
\* each event recorded before it present, unmodified and in the same order
\* relative to the others, so the history never gets shorter.
C15_HistoryAppendOnly ==
    lastStep.op \notin ReplacesHistory =>
        /\ KeepsEvents(lastStep.pre.currentCaseHistory, currentCaseHistory)
        /\ Len(currentCaseHistory) >= Len(lastStep.pre.currentCaseHistory)

C15_Witness ==
    /\ lastStep.op = "deleteCase:end"
    /\ Len(lastStep.pre.currentCaseHistory) >= 2
    /\ Len(currentCaseHistory) = Len(lastStep.pre.currentCaseHistory) + 1
    /\ Head(currentCaseHistory).action = "STORAGE_DELETED"

OldestFirst(h) == \A i, j \in 1..Len(h) : i < j => h[i].timestamp <= h[j].timestamp
NewestFirst(h) == \A i, j \in 1..Len(h) : i < j => h[i].timestamp >= h[j].timestamp

\* C16 as stated: the audit sequence in memory and in every persisted record
\* runs from the oldest event to the newest.
C16_StoredOldestFirst ==
    /\ OldestFirst(currentCaseHistory)
    /\ \A i \in 1..Len(Stored) : OldestFirst(HistoryOf(Stored[i]))

\* C16, amended: the audit sequence in memory and in every persisted record
\* runs from the newest event to the oldest, a step that records an event
\* puts it in front of the events recorded before it, and the History Log
\* shows the sequence in its stored order.
C16_StoredNewestFirst ==
    /\ NewestFirst(currentCaseHistory)
    /\ \A i \in 1..Len(Stored) : NewestFirst(HistoryOf(Stored[i]))
    /\ HistoryLogRows = currentCaseHistory
    /\ (/\ lastStep.op \notin ReplacesHistory
        /\ currentCaseHistory # lastStep.pre.currentCaseHistory) =>
            Tail(currentCaseHistory) = lastStep.pre.currentCaseHistory

C16_Witness ==
    /\ SaveSucceeded
    /\ Len(currentCaseHistory) >= 2
    /\ currentCaseHistory[1].timestamp > currentCaseHistory[Len(currentCaseHistory)].timestamp
    /\ StoredCase(lastStep.arg.caseData.id).history = currentCaseHistory
    /\ HistoryLogRows[1].action \in {"CASE_CREATED", "CASE_UPDATED"}

(***************************************************************************)
(* Claims about the unsaved-changes flag and the audit trail.              *)
(***************************************************************************)
\* the operations on the notes, the patient details, the dismissal ledger
\* and the analysis result
Mutations ==
    {"handleAddNote", "handleRemoveNote", "handleDragOver", "saveSourceEdit",
     "handlePatientDetailsChange", "handleDismissFlag", "handleRestoreFlag",
     "analysis:resolved"}

\* the last step changed the notes, the details, the ledger or the result
WorkingSetChanged ==
    \/ notes # lastStep.pre.notes
    \/ patientDetails # lastStep.pre.patientDetails
    \/ dismissedFlags # lastStep.pre.dismissedFlags
    \/ result # lastStep.pre.result

\* C17: an operation that changed the notes, the patient details, the
\* dismissal ledger or the analysis result leaves the unsaved-changes flag
\* set, whatever it was before.
C17_MutationLeavesDirty ==
    (lastStep.op \in Mutations /\ WorkingSetChanged) => hasUnsavedChanges

\* C18: an operation that changed the notes, the patient details, the
\* dismissal ledger or the analysis result put an audit event on the
\* in-memory history in the same step.
C18_MutationIsLogged ==
    (lastStep.op \in Mutations /\ WorkingSetChanged) =>
        /\ Len(currentCaseHistory) = Len(lastStep.pre.currentCaseHistory) + 1
        /\ KeepsEvents(lastStep.pre.currentCaseHistory, currentCaseHistory)

\* the session is Saved: an identity is bound and nothing is unsaved
Saved == currentCaseId # NullId /\ ~hasUnsavedChanges

\* the working set as storageService would keep it
WorkingSet ==
    sanitizeCase([id |-> currentCaseId, name |-> caseName(patientDetails),
                  patientDetails |-> patientDetails, notes |-> notes, result |-> result,
                  dismissedFlags |-> dismissedFlags, timestamp |-> now,
                  history |-> currentCaseHistory])

\* C19: whenever the session is Saved, the persisted collection holds a
\* record with the bound id whose patient details, notes, result,
\* dismissedFlags and history equal the sanitized working set in memory.
C19_SavedMirrorsStore ==
    Saved =>
        /\ HasId(Stored, currentCaseId)
        /\ StoredCase(currentCaseId).patientDetails = WorkingSet.patientDetails
        /\ StoredCase(currentCaseId).notes = WorkingSet.notes
        /\ StoredCase(currentCaseId).result = WorkingSet.result
        /\ StoredCase(currentCaseId).dismissedFlags = WorkingSet.dismissedFlags
        /\ HistoryOf(StoredCase(currentCaseId)) = WorkingSet.history

\* C21: undo moves the cursor down by one when it is above 0 and changes
\* nothing at 0; redo moves it up by one when it is below the last index and
\* changes nothing at the last index; after a move the edited text is
\* stack[cursor]; the stack is as it was, and it still is when the debounce
\* timer fires after the move, so no snapshot is recorded.
C21_UndoRedoMoveCursor ==
    /\ lastStep.op = "handleUndo" =>
          /\ historyStack = lastStep.pre.historyStack
          /\ IF lastStep.pre.historyStep > 0
             THEN /\ historyStep = lastStep.pre.historyStep - 1
                  /\ editSourceContent = historyStack[historyStep + 1]
             ELSE /\ historyStep = lastStep.pre.historyStep
                  /\ editSourceContent = lastStep.pre.editSourceContent
    /\ lastStep.op = "handleRedo" =>
          /\ historyStack = lastStep.pre.historyStack
          /\ IF lastStep.pre.historyStep < Len(lastStep.pre.historyStack) - 1
             THEN /\ historyStep = lastStep.pre.historyStep + 1
                  /\ editSourceContent = historyStack[historyStep + 1]
             ELSE /\ historyStep = lastStep.pre.historyStep
                  /\ editSourceContent = lastStep.pre.editSourceContent
    /\ (lastStep.op = "debounce" /\ lastStep.after[2]) =>
          /\ historyStack = lastStep.pre.historyStack
          /\ historyStep = lastStep.pre.historyStep

\* A, B, C recorded, undo back to B, the timer fires: C is still there
C21_Witness ==
    /\ lastStep.op = "debounce"
    /\ lastStep.after = <<"handleUndo", TRUE>>
    /\ historyStack = <<Note1.content, <<"B">>, <<"C">>>>
    /\ historyStep = 1
    /\ editSourceContent = <<"B">>

C23_DebounceCancelledOnClose ==
    (lastStep.op = "debounce" /\ lastStep.pre.viewSourceId = NullNote) =>
        /\ historyStack = lastStep.pre.historyStack
        /\ historyStep = lastStep.pre.historyStep

(***************************************************************************)
(* The session with a persisted case open: the App after mount and          *)
(* loadCase(EarlierCase).                                                   *)
(***************************************************************************)
InitLoaded ==
    /\ medium = JSONStringify(JsArray(<<EarlierCase, LegacyCase>>))
    /\ call = NoCall
    /\ cases = loadCases(medium).items
    /\ patientDetails = EarlierCase.patientDetails
    /\ notes = EarlierCase.notes
    /\ result = EarlierCase.result
    /\ dismissedFlags = EarlierCase.dismissedFlags
    /\ currentCaseId = EarlierCase.id
    /\ currentCaseHistory =
          <<Event(0, "CASE_LOADED", <<"Loaded from storage.">>)>> \o HistoryOf(EarlierCase)
    /\ hasUnsavedChanges = FALSE
    /\ isSaving = FALSE
    /\ isAnalyzing = FALSE
    /\ error = FALSE
    /\ savePending = <<>>
    /\ deletePending = <<>>
    /\ analyzePending = <<>>
    /\ lastStep = [op |-> "mount"]
    /\ now = 1
    /\ uuids = Len(loadCases(medium).items)
    /\ removedIds = {}
    /\ origin = NoOrigin
    /\ draggedNoteId = NullNote
    /\ viewSourceId = NullNote
    /\ isEditingSource = FALSE
    /\ editSourceContent = <<>>
    /\ historyStack = <<>>
    /\ historyStep = 0
    /\ debounce = FALSE

\* the case list, the Save Case button, New Case and the details form
NextLoaded ==
    \/ handlePatientDetailsChange
    \/ handleResetCase
    \/ saveCaseBegin
    \/ saveCaseEnd
    \/ loadCase
    \/ deleteCaseBegin
    \/ deleteCaseEnd

SpecLoaded == InitLoaded /\ [][NextLoaded]_vars

Written ==
    IF call.op = "saveCase" \/ FindIndex(Before.items, call.arg.id) = 0
    THEN After.items[1]
    ELSE After.items[FindIndex(Before.items, call.arg.id)]

C26_SanitizeIdempotent ==
    (call.op \in {"saveCase", "updateCase"} /\ call.ok) =>
        /\ sanitizeInput(Written.name) = Written.name
        /\ sanitizeInput(Written.patientDetails.id) = Written.patientDetails.id
        /\ \A i \in 1..Len(Written.notes) :
              /\ sanitizeInput(Written.notes[i].content) = Written.notes[i].content
              /\ sanitizeInput(Written.notes[i].label) = Written.notes[i].label
        /\ sanitizeCase(Written).notes = Written.notes

\* C27: updateCase(c) performed twice in a row with the same c leaves the
\* persisted collection the first call left: same entries, same order,
\* same length, whether c.id was in the collection or not.
C27_UpdateIdempotent ==
    (call.op = "updateCase" /\ call.ok /\ "prior" \in DOMAIN call /\ call.prior # NoPrior) =>
        /\ After = Before
        /\ call.ret.items = Before.items
        /\ Len(After.items) = Len(Before.items)

\* the second of two updates of a case whose id the collection did not hold
C27_Witness ==
    /\ call.op = "updateCase"
    /\ call.ok
    /\ "prior" \in DOMAIN call
    /\ call.prior # NoPrior
    /\ ~HasId(loadCases(call.prior).items, call.arg.id)
    /\ Len(loadCases(call.prior).items) = 1
    /\ Len(After.items) = 2
    /\ After.items[1] = sanitizeCase(call.arg)

\* the second of two updates of a case the collection held at index 2
C27_WitnessInPlace ==
    /\ call.op = "updateCase"
    /\ call.ok
    /\ "prior" \in DOMAIN call
    /\ call.prior # NoPrior
    /\ FindIndex(loadCases(call.prior).items, call.arg.id) = 2
    /\ After.items[2] = sanitizeCase(call.arg)
    /\ loadCases(call.prior).items[2] # sanitizeCase(call.arg)

ConflictInputs ==
    {[id |-> cid, severity |-> sev, source_ids |-> {"n1", "n2"}] :
        cid \in {"", "c1", "conflict-0", "conflict-1"}, sev \in {"HIGH", "LOW"}}

ParsedInputs ==
    {[patient_trajectory_summary |-> <<"stable">>, critical_conflicts |-> cs] :
        cs \in ListsUpTo(ConflictInputs, MaxConflicts)}

InitAnalyze ==
    /\ medium = Absent
    /\ call = NoCall
    /\ cases = <<>>
    /\ AppInit

\* const data = await analyzeNotes(notes); setResult(data)
AnalyzeParsed ==
    \E parsed \in ParsedInputs :
        /\ result' = analyzeNotes(parsed)
        /\ lastStep' = Step("analyzeNotes", parsed)
        /\ UNCHANGED <<storeVars, patientDetails, notes, dismissedFlags, sessVars,
                       savePending, deletePending, analyzePending, now, uuids,
                       obsVars, editVars>>

NextAnalyze == AnalyzeParsed

SpecAnalyze == InitAnalyze /\ [][NextAnalyze]_vars

\* C29: after the fallback id assignment every conflict has a non-empty id,
\* an id supplied upstream is as it was, and the ids of the result are
\* pairwise distinct whenever the ids supplied upstream were.
C29_FallbackIdsDistinct ==
    lastStep.op = "analyzeNotes" =>
        LET given == lastStep.arg.critical_conflicts
            out == result.critical_conflicts
        IN  /\ Len(out) = Len(given)
            /\ \A i \in 1..Len(out) :
                  /\ out[i].id # ""
                  /\ given[i].id # "" => out[i].id = given[i].id
            /\ (\A i, j \in 1..Len(given) :
                    (i # j /\ given[i].id # "" /\ given[j].id # "") => given[i].id # given[j].id)
                => (\A i, j \in 1..Len(out) : i # j => out[i].id # out[j].id)

(***************************************************************************)
(* Claims about an analysis in flight.                                     *)
(***************************************************************************)
\* C30: a result is installed only if the notes it was computed from are
\* still the notes of the session: when they are not (a note was added,
\* removed or edited, the case was reset or another one loaded while the
\* call was in flight), the result of the session stays as it was.
C30_LateResultDropped ==
    (lastStep.op = "analysis:resolved" /\ lastStep.arg.notes # lastStep.pre.notes) =>
        result = lastStep.pre.result

====
